---------------------------- MODULE Spec2Model ----------------------------
(***************************************************************************)
(* HudlFileManager.main (src/HudlFileManager.py): one invocation of the    *)
(* processor, statement group by statement group.  File names are          *)
(* sequences of one-character strings, paths are records                   *)
(* [abs, parts] in the manner of pathlib.PurePosixPath, the environment    *)
(* mapping self.env is a record of optional values (<<>> absent, <<v>>     *)
(* present), and the file system is the source file plus the destination   *)
(* directory's listing.                                                    *)
(***************************************************************************)
EXTENDS Integers, Sequences, FiniteSets, TLC

(***************************************************************************)
(* Bounds of the explored inputs.                                          *)
(***************************************************************************)
\* longest destination listing on entry
MaxEntries == 2
\* most entries one extraction unpacks
MaxUnpacked == 1

(***************************************************************************)
(* Character sequences.                                                    *)
(***************************************************************************)
Dot == <<".">>
DmgSuffix == <<".", "d", "m", "g">>

EndsWith(s, suf) ==
    /\ Len(suf) <= Len(s)
    /\ SubSeq(s, Len(s) - Len(suf) + 1, Len(s)) = suf

StartsWith(s, pre) ==
    /\ Len(pre) <= Len(s)
    /\ SubSeq(s, 1, Len(pre)) = pre

Contains(s, sub) ==
    \E i \in 1..(Len(s) - Len(sub) + 1) : SubSeq(s, i, i + Len(sub) - 1) = sub

\* name.split("?")[0]: everything before the first "?"
SplitFirst(name) ==
    LET qs == {i \in 1..Len(name) : name[i] = "?"}
    IN  IF qs = {} THEN name
        ELSE SubSeq(name, 1, (CHOOSE i \in qs : \A j \in qs : i <= j) - 1)

(***************************************************************************)
(* pathlib paths.                                                          *)
(***************************************************************************)
NullPath == [abs |-> FALSE, parts |-> <<>>]

\* pathlib.Path(str) of a bare file name: "" has no parts
PathOfName(name) ==
    [abs |-> FALSE, parts |-> IF name = <<>> THEN <<>> ELSE <<name>>]

\* PurePath.parent
Parent(p) ==
    IF p.parts = <<>> THEN p
    ELSE [abs |-> p.abs, parts |-> SubSeq(p.parts, 1, Len(p.parts) - 1)]

\* PurePath.name
Name(p) == IF p.parts = <<>> THEN <<>> ELSE p.parts[Len(p.parts)]

\* PurePath.joinpath(q): an absolute q replaces what precedes it
JoinPath(p, q) ==
    IF q.abs THEN q ELSE [abs |-> p.abs, parts |-> p.parts \o q.parts]

\* PurePath.suffix: from the last dot, unless it leads or ends the name
PathSuffix(p) ==
    LET n == Name(p)
        ds == {i \in 1..Len(n) : n[i] = "."}
        i == IF ds = {} THEN 0 ELSE CHOOSE k \in ds : \A j \in ds : j <= k
    IN  IF 1 < i /\ i < Len(n) THEN SubSeq(n, i, Len(n)) ELSE <<>>

\* the directories above p
Ancestors(p) ==
    {[abs |-> p.abs, parts |-> SubSeq(p.parts, 1, k)] : k \in 0..(Len(p.parts) - 1)}

(***************************************************************************)
(* The archive-extension table.                                            *)
(***************************************************************************)
EXTNS ==
    << [tag |-> "zip",       extns |-> << <<"z", "i", "p">> >>],
       [tag |-> "tar_gzip",  extns |-> << <<"t", "a", "r", ".", "g", "z">>,
                                          <<"t", "g", "z">> >>],
       [tag |-> "tar_bzip2", extns |-> << <<"t", "a", "r", ".", "b", "z", "2">>,
                                          <<"t", "b", "z">> >>],
       [tag |-> "tar",       extns |-> << <<"t", "a", "r">> >>],
       [tag |-> "gzip",      extns |-> << <<"g", "z", "i", "p">> >>] >>

\* list(EXTNS.keys())
EXTNSKeys == {EXTNS[i].tag : i \in 1..Len(EXTNS)}

NoFormat == "None"

\* The inherited format guess: the first group, in table order, one of
\* whose dotted suffixes ends the file name; NoFormat when none does.
get_archive_format(path) ==
    LET n == Name(path)
        hit(i) == \E k \in 1..Len(EXTNS[i].extns) :
                      EndsWith(n, Dot \o EXTNS[i].extns[k])
        hits == {i \in 1..Len(EXTNS) : hit(i)}
    IN  IF hits = {} THEN NoFormat
        ELSE EXTNS[CHOOSE i \in hits : \A j \in hits : i <= j].tag


(***************************************************************************)
(* The explored inputs.                                                    *)
(***************************************************************************)
\* env["NAME"]
RecipeName == <<"N">>
\* env["RECIPE_CACHE_DIR"]
CacheDir == [abs |-> TRUE, parts |-> << <<"c">> >>]
\* an explicit destination_path option
OutDir == [abs |-> TRUE, parts |-> << <<"o", "u", "t">> >>]
\* a dmg_path left in the environment by an earlier processor
StaleDmg == [abs |-> TRUE, parts |-> << <<"o", "l", "d", ".", "d", "m", "g">> >>]
\* the directory the download sits in
DownloadDir == <<"d", "l">>

Stem == <<"b">>

Exts ==
    { <<>>, <<"z", "i", "p">>, <<".", "t", "x", "t">>, <<".", "g", "z">>, DmgSuffix }
    \cup UNION { {Dot \o EXTNS[i].extns[k] : k \in 1..Len(EXTNS[i].extns)} :
                    i \in 1..Len(EXTNS) }

Queries ==
    { <<>>, <<"?", "s">>, <<"?", "a", ".", "d", "m", "g", "?", "b">> }

\* file names a download may carry
FileNames ==
    {Stem \o e \o q : e \in Exts, q \in Queries} \cup {DmgSuffix, <<"?", "s">>}

\* the ways the same file may be named by the pathname option
PathsOf(name) ==
    { [abs |-> TRUE,  parts |-> <<DownloadDir, name>>],
      [abs |-> FALSE, parts |-> <<DownloadDir, name>>],
      [abs |-> FALSE, parts |-> <<name>>] }

FewNames ==
    { Stem \o <<".", "z", "i", "p", "?", "s">>, Stem \o DmgSuffix,
      Stem \o <<".", "t", "x", "t">> }

Entry(n, k) == [name |-> n, kind |-> k]

\* what the destination directory may hold on entry
EntryPool ==
    { Entry(<<"N", "1", ".", "d", "m", "g">>, "file"),
      Entry(<<"o", ".", "d", "m", "g">>, "file"),
      Entry(<<"r", ".", "t", "x", "t">>, "file"),
      Entry(<<"s", "u", "b">>, "dir"),
      Entry(<<"l", "n", "k">>, "symlink") }

\* what an archive may unpack
UnpackPool ==
    { Entry(<<"N", "2", ".", "d", "m", "g">>, "file"),
      Entry(<<"x", ".", "d", "m", "g">>, "file"),
      Entry(<<"A", "p", "p">>, "dir") }

\* listings without repeated names, at most n long
Listings(pool, n) ==
    {l \in UNION {[1..k -> pool] : k \in 0..n} :
        \A i, j \in 1..Len(l) : i # j => l[i].name # l[j].name}

Some(v) == <<v>>
None == <<>>

VARIABLES
    env,               \* self.env
    fs,                \* the file system: source files, destination directory
    pc,                \* the statement group main is about to run
    pathname,          \* local pathname (a Path once resolved)
    destination_path,  \* local destination_path
    todo,              \* the entries the purge loop has yet to visit
    new_pathname,      \* local new_pathname
    file_fmt,          \* local file_fmt
    calls,             \* the invocations of self._extract, in order
    err,               \* the exception that ended main, if any
    log,               \* the file-system mutations performed, in order
    env0,              \* self.env on entry
    fs0                \* the file system on entry

vars == << env, fs, pc, pathname, destination_path, todo, new_pathname,
           file_fmt, calls, err, log, env0, fs0 >>

NoErr == [kind |-> "none", typed |-> TRUE, subject |-> NullPath]

\* raise ProcessorError(...)
ProcessorError(kind, subject) == [kind |-> kind, typed |-> TRUE, subject |-> subject]
\* any exception that is not a ProcessorError
Untyped(kind, subject) == [kind |-> kind, typed |-> FALSE, subject |-> subject]

Envs(p) ==
    [ archive_path : {None, Some(NullPath), Some(p)},
      pathname : {None, Some(NullPath), Some(p)},
      purge_destination : BOOLEAN,
      destination_path : {None, Some(OutDir)},
      NAME : {None, Some(RecipeName)},
      dmg_path : {None, Some(StaleDmg)} ]

FileSystems(p) ==
    [ src : {{}, {p}}, destKind : {"absent", "file"}, dest : {<<>>} ]
    \cup [ src : {{}, {p}}, destKind : {"dir"},
           dest : Listings(EntryPool, MaxEntries) ]

\* every file name and path shape, a usual environment
InitNames ==
    \E n \in FileNames : \E p \in PathsOf(n) :
        /\ env \in { e \in Envs(p) :
                        /\ e.archive_path = None /\ e.pathname = Some(p)
                        /\ e.destination_path = None /\ e.NAME # None }
        /\ fs \in { f \in FileSystems(p) :
                        /\ f.src = {p} /\ f.destKind # "file" /\ Len(f.dest) <= 1 }

\* every environment and destination, a few file names
InitEnvs ==
    \E n \in FewNames :
        LET p == [abs |-> TRUE, parts |-> <<DownloadDir, n>>]
        IN  /\ env \in Envs(p)
            /\ fs \in FileSystems(p)

Init ==
    /\ InitNames \/ InitEnvs
    /\ pc = "start"
    /\ pathname = NullPath
    /\ destination_path = NullPath
    /\ todo = <<>>
    /\ new_pathname = NullPath
    /\ file_fmt = NoFormat
    /\ calls = <<>>
    /\ err = NoErr
    /\ log = <<>>
    /\ env0 = env
    /\ fs0 = fs

\* main ends by raising e
Raise(e) ==
    /\ pc' = "failed"
    /\ err' = e


(***************************************************************************)
(* Input resolution.                                                       *)
(***************************************************************************)
\* self.env.get("archive_path", self.env.get("pathname"))
PathOption == IF env.archive_path # None THEN env.archive_path ELSE env.pathname

\* not pathname: None or the empty string
Falsy(opt) == opt = None \/ opt[1] = NullPath

\* pathname.exists()
ExistsMutant(p) == TRUE

Exists(p) == p \in fs.src

ResolveInput ==
    /\ pc = "start"
    /\ IF Falsy(PathOption)
       THEN /\ Raise(ProcessorError("ExpectedPathname", NullPath))
            /\ UNCHANGED pathname
       ELSE /\ pathname' = PathOption[1]
            /\ IF ~Exists(PathOption[1])
               THEN Raise(ProcessorError("DoesNotExist", PathOption[1]))
               ELSE pc' = "destination" /\ UNCHANGED err
    /\ UNCHANGED << env, fs, destination_path, todo, new_pathname, file_fmt,
                    calls, log, env0, fs0 >>

\* The default is built before env.get looks the option up, so a missing
\* NAME is a KeyError even when destination_path is given.
ResolveDestination ==
    /\ pc = "destination"
    /\ IF env.NAME = None
       THEN /\ Raise(Untyped("KeyError", NullPath))
            /\ UNCHANGED destination_path
       ELSE /\ destination_path' =
                  IF env.destination_path # None THEN env.destination_path[1]
                  ELSE JoinPath(CacheDir, PathOfName(env.NAME[1]))
            /\ pc' = "mkdir"
            /\ UNCHANGED err
    /\ UNCHANGED << env, fs, pathname, todo, new_pathname, file_fmt, calls,
                    log, env0, fs0 >>

(***************************************************************************)
(* Destination preparation.                                                *)
(***************************************************************************)
\* where main goes once the purge loop has t left to visit
AfterPurge(t) == IF t = <<>> THEN "canonicalize" ELSE "purge"

\* destination_path.mkdir(parents=True, exist_ok=True), then the purge
\* loop's listing when purge_destination is set
MakeDestination ==
    /\ pc = "mkdir"
    /\ \/ /\ fs.destKind = "file"
          /\ Raise(Untyped("FileExistsError", destination_path))
          /\ UNCHANGED << fs, log, todo >>
       \/ /\ fs.destKind = "absent"
          /\ Raise(Untyped("OSError", destination_path))
          /\ UNCHANGED << fs, log, todo >>
       \/ /\ fs.destKind # "file"
          /\ fs' = [fs EXCEPT !.destKind = "dir"]
          /\ log' = Append(log, "mkdir")
          /\ todo' = IF env.purge_destination THEN fs.dest ELSE <<>>
          /\ pc' = AfterPurge(todo')
          /\ UNCHANGED err
    /\ UNCHANGED << env, pathname, destination_path, new_pathname, file_fmt,
                    calls, env0, fs0 >>

\* the listing without the entry named n
Without(listing, n) == SelectSeq(listing, LAMBDA e : e.name # n)

\* One pass of the purge loop.  A directory that is no symbolic link goes
\* to shutil.rmtree(path), and path is no name of main or of the module.
PurgeEntry ==
    /\ pc = "purge"
    /\ todo # <<>>
    /\ LET e == Head(todo)
           file_path == JoinPath(destination_path, PathOfName(e.name))
       IN  IF e.kind = "dir"
           THEN /\ Raise(Untyped("NameError", file_path))
                /\ UNCHANGED << fs, log, todo >>
           ELSE \/ /\ fs' = [fs EXCEPT !.dest = Without(fs.dest, e.name)]
                   /\ log' = Append(log, "unlink")
                   /\ todo' = Tail(todo)
                   /\ pc' = AfterPurge(todo')
                   /\ UNCHANGED err
                \/ /\ Raise(ProcessorError("CantRemove", file_path))
                   /\ UNCHANGED << fs, log, todo >>
    /\ UNCHANGED << env, pathname, destination_path, new_pathname, file_fmt,
                    calls, env0, fs0 >>

(***************************************************************************)
(* Canonicalization.                                                       *)
(***************************************************************************)
\* pathname.joinpath(pathname.parent, pathname.name.split("?")[0])
NewPathname(p) ==
    JoinPath(JoinPath(p, Parent(p)), PathOfName(SplitFirst(Name(p))))

\* os.rename(p, q) can succeed: q is p, or q lies in an existing directory
\* and is no directory itself
CanRename(p, q) ==
    \/ q = p
    \/ /\ Parent(q) \in Ancestors(p)
       /\ q \notin Ancestors(p)
       /\ q.parts # <<>>

Canonicalize ==
    /\ pc = "canonicalize"
    /\ new_pathname' = NewPathname(pathname)
    /\ \/ /\ CanRename(pathname, new_pathname')
          /\ fs' = [fs EXCEPT !.src = (fs.src \ {pathname}) \cup {new_pathname'}]
          /\ log' = Append(log, "rename")
          /\ pc' = "branch"
          /\ UNCHANGED err
       \/ /\ Raise(ProcessorError("RenameFailed", new_pathname'))
          /\ UNCHANGED << fs, log >>
    /\ UNCHANGED << env, pathname, destination_path, todo, file_fmt, calls,
                    env0, fs0 >>


(***************************************************************************)
(* Disk images and format detection.                                       *)
(***************************************************************************)
\* new_pathname.suffix == ".dmg"
IsDmgMutant(p) == PathSuffix(p) = <<"d", "m", "g">>

IsDmg(p) == PathSuffix(p) = DmgSuffix

\* self.env["dmg_path"] = str(new_pathname)
DmgShortcut ==
    /\ pc = "branch"
    /\ IsDmg(new_pathname)
    /\ env' = [env EXCEPT !.dmg_path = Some(new_pathname)]
    /\ pc' = "check"
    /\ UNCHANGED << fs, pathname, destination_path, todo, new_pathname,
                    file_fmt, calls, err, log, env0, fs0 >>

\* not file_fmt
NoGuessMutant(fmt) == FALSE

NoGuess(fmt) == fmt = NoFormat

DetectFormat ==
    /\ pc = "branch"
    /\ ~IsDmg(new_pathname)
    /\ file_fmt' = get_archive_format(new_pathname)
    /\ IF NoGuess(file_fmt')
       THEN Raise(ProcessorError("CantGuess", PathOfName(Name(new_pathname))))
       ELSE IF file_fmt' \notin EXTNSKeys
       THEN Raise(ProcessorError("InvalidFormat", PathOfName(Name(new_pathname))))
       ELSE pc' = "extract" /\ UNCHANGED err
    /\ UNCHANGED << env, fs, pathname, destination_path, todo, new_pathname,
                    calls, log, env0, fs0 >>

(***************************************************************************)
(* Extraction and location.                                                *)
(***************************************************************************)
\* the arguments of self._extract
ExtractArgsMutant ==
    [ fmt |-> IF PathSuffix(new_pathname) = <<".", "g", "z">> THEN "gzip"
              ELSE file_fmt,
      src |-> new_pathname, dst |-> destination_path ]

ExtractArgs ==
    [fmt |-> file_fmt, src |-> new_pathname, dst |-> destination_path]

\* The inherited extraction: it unpacks some entries into the destination
\* directory, anywhere in its listing, or fails with a ProcessorError.
Unpack(listing) ==
    {u \o listing : u \in Listings(UnpackPool, MaxUnpacked)}
    \cup {listing \o u : u \in Listings(UnpackPool, MaxUnpacked)}

Extract ==
    /\ pc = "extract"
    /\ calls' = Append(calls, ExtractArgs)
    /\ \/ /\ \E l \in Unpack(fs.dest) : fs' = [fs EXCEPT !.dest = l]
          /\ log' = Append(log, "extract")
          /\ pc' = "locate"
          /\ UNCHANGED err
       \/ /\ Raise(ProcessorError("ExtractionError", new_pathname))
          /\ UNCHANGED << fs, log >>
    /\ UNCHANGED << env, pathname, destination_path, todo, new_pathname,
                    file_fmt, env0, fs0 >>

\* re.match(rf"{recipe_name}.*\.dmg", name), recipe_name free of regular
\* expression operators
ReMatch(recipe_name, name) ==
    /\ StartsWith(name, recipe_name)
    /\ Contains(SubSeq(name, Len(recipe_name) + 1, Len(name)), DmgSuffix)

\* the positions of destination_path.glob("*.dmg") the pattern matches
Matches(listing, recipe_name) ==
    {i \in 1..Len(listing) :
        /\ EndsWith(listing[i].name, DmgSuffix)
        /\ ReMatch(recipe_name, listing[i].name)}

Least(S) == CHOOSE i \in S : \A j \in S : i <= j

Locate ==
    /\ pc = "locate"
    /\ LET m == Matches(fs.dest, env.NAME[1])
       IN  IF m = {} THEN UNCHANGED env
           ELSE env' = [env EXCEPT !.dmg_path =
                           Some(JoinPath(destination_path,
                                         PathOfName(fs.dest[Least(m)].name)))]
    /\ pc' = "check"
    /\ UNCHANGED << fs, pathname, destination_path, todo, new_pathname,
                    file_fmt, calls, err, log, env0, fs0 >>

\* a rollback main does not have: the failed run puts the source back
CheckFoundMutant ==
    /\ pc = "check"
    /\ IF env.dmg_path = None
       THEN /\ Raise(ProcessorError("NotFound", NullPath))
            /\ fs' = [fs EXCEPT !.src = (fs.src \ {new_pathname}) \cup {pathname}]
       ELSE pc' = "done" /\ UNCHANGED << err, fs >>
    /\ UNCHANGED << env, pathname, destination_path, todo, new_pathname,
                    file_fmt, calls, log, env0, fs0 >>

\* if not self.env.get("dmg_path")
CheckFound ==
    /\ pc = "check"
    /\ IF env.dmg_path = None
       THEN Raise(ProcessorError("NotFound", NullPath))
       ELSE pc' = "done" /\ UNCHANGED err
    /\ UNCHANGED << env, fs, pathname, destination_path, todo, new_pathname,
                    file_fmt, calls, log, env0, fs0 >>

Next ==
    \/ ResolveInput
    \/ ResolveDestination
    \/ MakeDestination
    \/ PurgeEntry
    \/ Canonicalize
    \/ DmgShortcut
    \/ DetectFormat
    \/ Extract
    \/ Locate
    \/ CheckFound

Spec == Init /\ [][Next]_vars


(***************************************************************************)
(* Vocabulary of the properties.                                           *)
(***************************************************************************)
Terminal == pc \in {"done", "failed"}

Range(q) == {q[i] : i \in 1..Len(q)}

\* errors raised by the rename or by a later statement
LateErrors ==
    {"RenameFailed", "CantGuess", "InvalidFormat", "ExtractionError", "NotFound"}

\* the rename statement has run, successfully or not
PastCanonicalize ==
    \/ pc \in {"branch", "extract", "locate", "check", "done"}
    \/ pc = "failed" /\ err.kind \in LateErrors

\* the rename succeeded and the suffix test has chosen a branch
PastBranch ==
    \/ pc \in {"extract", "locate", "check", "done"}
    \/ pc = "failed" /\ err.kind \in LateErrors \ {"RenameFailed"}

\* the file name ends in a dotted suffix of group i of the table
EndsInGroup(n, i) ==
    \E k \in 1..Len(EXTNS[i].extns) : EndsWith(n, Dot \o EXTNS[i].extns[k])

\* the children with a .dmg suffix whose name begins with the recipe name
NamedDmgs(listing) ==
    {i \in 1..Len(listing) :
        /\ EndsWith(listing[i].name, DmgSuffix)
        /\ StartsWith(listing[i].name, RecipeName)}

\* the source path the options resolve to on entry
Resolved0 ==
    IF env0.archive_path # None THEN env0.archive_path ELSE env0.pathname

HasQuery(p) == "?" \in Range(Name(p))

(***************************************************************************)
(* C1.  Canonicalization: once the rename statement has run, the canonical *)
(* path lies in the source's parent directory and its file name is the     *)
(* source's file name up to its first "?"; without a "?" it is the source  *)
(* path itself.  Fails: a relative source path is joined onto itself.      *)
(***************************************************************************)
C1_Canonicalization ==
    PastCanonicalize =>
        /\ Parent(new_pathname) = Parent(pathname)
        /\ Name(new_pathname) = SplitFirst(Name(pathname))
        /\ ~HasQuery(pathname) => new_pathname = pathname

(***************************************************************************)
(* C2.  Format detection: when the canonical file name ends in a           *)
(* recognized suffix, the extraction delegate is invoked once, with the    *)
(* tag of that suffix's group, the canonical path and the destination.     *)
(***************************************************************************)
C2_FormatDetection ==
    \A i \in 1..Len(EXTNS) :
        (PastBranch /\ EndsInGroup(Name(new_pathname), i)) =>
            IF pc = "extract" THEN calls = <<>>
            ELSE calls = << [fmt |-> EXTNS[i].tag, src |-> new_pathname,
                             dst |-> destination_path] >>

C2_Witness ==
    /\ pc = "done"
    /\ HasQuery(pathname)
    /\ EndsWith(Name(new_pathname), <<".", "t", "a", "r", ".", "g", "z">>)
    /\ calls # <<>>
    /\ calls[1].fmt = "tar_gzip"

(***************************************************************************)
(* C3.  Unrecognized format: when the canonical file name ends neither in  *)
(* .dmg nor in a recognized suffix, main fails with the cannot-guess error *)
(* naming the file, never invokes the delegate and leaves dmg_path as it   *)
(* was on entry.                                                           *)
(***************************************************************************)
C3_Unrecognized ==
    ( /\ PastBranch
      /\ ~EndsWith(Name(new_pathname), DmgSuffix)
      /\ \A i \in 1..Len(EXTNS) : ~EndsInGroup(Name(new_pathname), i) ) =>
        /\ pc = "failed"
        /\ err = ProcessorError("CantGuess", PathOfName(Name(new_pathname)))
        /\ calls = <<>>
        /\ env.dmg_path = env0.dmg_path

C3_Witness ==
    /\ pc = "failed"
    /\ err.kind = "CantGuess"
    /\ HasQuery(pathname)
    /\ Name(new_pathname) = Stem \o <<".", "g", "z">>
    /\ env.dmg_path = Some(StaleDmg)

(***************************************************************************)
(* C4.  Disk-image shortcut: when the canonical file name has the          *)
(* extension .dmg, main never detects a format, never invokes the delegate *)
(* and ends successfully with dmg_path the canonical path.                 *)
(***************************************************************************)
C4_DmgShortcut ==
    ( /\ PastBranch
      /\ EndsWith(Name(new_pathname), DmgSuffix)
      /\ Len(Name(new_pathname)) > Len(DmgSuffix) ) =>
        /\ pc \in {"check", "done"}
        /\ err = NoErr
        /\ file_fmt = NoFormat
        /\ calls = <<>>
        /\ env.dmg_path = Some(new_pathname)
        /\ new_pathname \in fs.src

C4_Witness ==
    /\ pc = "done"
    /\ HasQuery(pathname)
    /\ env0.dmg_path = None
    /\ env.dmg_path = Some(new_pathname)
    /\ calls = <<>>

(***************************************************************************)
(* C5.  Purge: with purge_destination set, the destination is empty when   *)
(* canonicalization starts, and a run that ends inside the purge loop ends *)
(* with the cannot-remove error naming the entry.  Fails: a subdirectory   *)
(* ends the run with a NameError.                                          *)
(***************************************************************************)
C5_Purge ==
    env.purge_destination =>
        /\ pc = "canonicalize" => fs.dest = <<>>
        /\ (pc = "failed" /\ "mkdir" \in Range(log) /\ ~PastCanonicalize) =>
              /\ err.typed
              /\ err.kind = "CantRemove"
              /\ todo # <<>>
              /\ err.subject = JoinPath(destination_path, PathOfName(Head(todo).name))

(***************************************************************************)
(* C6.  Not found: when extraction has succeeded and the destination holds *)
(* no .dmg child named after the recipe, main fails with the not-found     *)
(* error, whatever the environment held on entry.  Fails: a dmg_path       *)
(* present on entry passes the final test.                                 *)
(***************************************************************************)
C6_NotFound ==
    (Terminal /\ "extract" \in Range(log) /\ NamedDmgs(fs.dest) = {}) =>
        /\ pc = "failed"
        /\ err.kind = "NotFound"

(***************************************************************************)
(* C7.  Locator result: when main succeeds after extraction, dmg_path is   *)
(* the first .dmg child of the destination, in listing order, named after  *)
(* the recipe.  Fails as C6 does.                                          *)
(***************************************************************************)
C7_LocatorResult ==
    (pc = "done" /\ calls # <<>>) =>
        /\ NamedDmgs(fs.dest) # {}
        /\ env.dmg_path =
              Some(JoinPath(destination_path,
                            PathOfName(fs.dest[Least(NamedDmgs(fs.dest))].name)))

(***************************************************************************)
(* C8.  Input resolution has no side effects: when the options resolve to  *)
(* no source path, or to one that does not exist, main fails with the      *)
(* matching error and the file system and the environment are as on entry. *)
(***************************************************************************)
C8_InputResolution ==
    (Resolved0 = None \/ Resolved0[1] = NullPath \/ Resolved0[1] \notin fs0.src) =>
        /\ pc \in {"start", "failed"}
        /\ fs = fs0
        /\ env = env0
        /\ log = <<>>
        /\ calls = <<>>
        /\ pc = "failed" =>
              err = IF Resolved0 = None \/ Resolved0[1] = NullPath
                    THEN ProcessorError("ExpectedPathname", NullPath)
                    ELSE ProcessorError("DoesNotExist", Resolved0[1])

C8_Witness ==
    /\ pc = "failed"
    /\ err.kind = "DoesNotExist"
    /\ env.purge_destination
    /\ fs.destKind = "absent"

(***************************************************************************)
(* C9.  All-or-typed-failure: main ends either done with a dmg_path or     *)
(* failed with a ProcessorError.  Fails: the purge loop's NameError, and   *)
(* the errors of the statements before the try block, are not wrapped.     *)
(***************************************************************************)
C9_TypedFailure ==
    Terminal =>
        \/ pc = "done" /\ env.dmg_path # None /\ err = NoErr
        \/ pc = "failed" /\ err.typed

(***************************************************************************)
(* C10.  Ordering without rollback: the mutating calls succeed in the      *)
(* order mkdir, unlink..., rename, extract, each of mkdir, rename and      *)
(* extract at most once; an entry the purge removed stays removed, and     *)
(* once renamed the source stays at its canonical path, also in the runs   *)
(* that fail afterwards.                                                   *)
(***************************************************************************)
Rank(op) ==
    CASE op = "mkdir" -> 1 [] op = "unlink" -> 2 [] op = "rename" -> 3
      [] op = "extract" -> 4

Count(q, op) == Cardinality({i \in 1..Len(q) : q[i] = op})

C10_OrderNoRollback ==
    /\ \A i, j \in 1..Len(log) : i < j => Rank(log[i]) <= Rank(log[j])
    /\ \A op \in {"mkdir", "rename", "extract"} : Count(log, op) <= 1
    /\ Len(calls) <= 1
    /\ Count(log, "unlink") =
          Cardinality({i \in 1..Len(fs0.dest) :
                          \A j \in 1..Len(fs.dest) :
                              fs.dest[j].name # fs0.dest[i].name})
    /\ IF "rename" \in Range(log)
       THEN fs.src = {new_pathname}
       ELSE fs.src = fs0.src

C10_Witness ==
    /\ pc = "failed"
    /\ err.kind = "NotFound"
    /\ log = <<"mkdir", "unlink", "rename", "extract">>
    /\ HasQuery(pathname)

==========================================================================
